---- MODULE Spec2Model ----
(***************************************************************************)
(* The Interactive Window contribution                                     *)
(* (src/vs/workbench/contrib/interactive/browser/interactive.contribution.ts)*)
(* as a state machine: the notebook content provider (open / backup), and  *)
(* the commands interactive.open, interactive.execute,                     *)
(* interactive.history.previous and interactive.history.next.              *)
(***************************************************************************)
EXTENDS Integers, Sequences, FiniteSets, TLC

(***************************************************************************)
(* JavaScript values.  Every value is a record with a single field that    *)
(* names its type, so that values of different types can be compared.      *)
(* An object is a record of its own properties; a property that is absent  *)
(* reads as Undefined.                                                     *)
(***************************************************************************)
Undefined == [undefined |-> TRUE]
Null == [null |-> TRUE]
Num(n) == [num |-> n]
Str(s) == [str |-> s]
Arr(s) == [arr |-> s]
Obj(r) == [obj |-> r]
\* A Uint8Array.
Bytes(s) == [bytes |-> s]
\* An exception in flight (the outcome of an expression that throws).
Thrown == [thrown |-> TRUE]

IsNum(v) == "num" \in DOMAIN v
IsStr(v) == "str" \in DOMAIN v
IsArr(v) == "arr" \in DOMAIN v
IsObj(v) == "obj" \in DOMAIN v
IsBytes(v) == "bytes" \in DOMAIN v
IsNullish(v) == v = Undefined \/ v = Null

EmptyObject == Obj([k \in {} |-> Undefined])
EmptyArray == Arr(<<>>)

\* v.k : a property read.  Reading a property of undefined or null throws.
Get(v, k) ==
    IF v = Thrown \/ IsNullish(v) THEN Thrown
    ELSE IF IsObj(v) /\ k \in DOMAIN v.obj THEN v.obj[k]
    ELSE Undefined

\* The truthiness of a value in a condition.
Truthy(v) ==
    ~ \/ IsNullish(v)
      \/ v = Num(0)
      \/ v = Str("")
      \/ v = [bool |-> FALSE]

\* The elements the callback of v.map is called with.
Elements(v) == IF IsArr(v) THEN v.arr ELSE <<>>

\* v.map(callback), mapped being the callback's results on Elements(v):
\* throws unless v is an array; an exception in the callback propagates.
ArrayMap(v, mapped) ==
    IF ~IsArr(v) THEN Thrown
    ELSE IF \E i \in DOMAIN mapped : mapped[i] = Thrown THEN Thrown
    ELSE Arr(mapped)

\* The conversion of one element to an unsigned byte (modulo 2^8).
ToUint8(v) == IF IsNum(v) THEN v.num % 256 ELSE 0

\* Uint8Array.from(v): throws on undefined or null; an array is converted
\* element by element; a value with no length gives the empty array.
Uint8ArrayFrom(v) ==
    IF v = Thrown \/ IsNullish(v) THEN Thrown
    ELSE IF IsArr(v) THEN Bytes([i \in DOMAIN v.arr |-> ToUint8(v.arr[i])])
    ELSE IF IsBytes(v) THEN v
    ELSE Bytes(<<>>)

\* Array.from(v) of a Uint8Array: the array of its numbers.
ArrayFrom(v) ==
    IF IsBytes(v) THEN Arr([i \in DOMAIN v.bytes |-> Num(v.bytes[i])])
    ELSE IF IsArr(v) THEN v
    ELSE EmptyArray

(***************************************************************************)
(* JSON text.  A string is either the JSON text of a value, Json(tree), or *)
(* some other text, Raw(s).  JSON.stringify drops the properties whose     *)
(* value is undefined, writes undefined array elements as null and a       *)
(* Uint8Array as an object keyed by index; JSON.parse throws on text that  *)
(* is not JSON.                                                            *)
(***************************************************************************)
Json(tree) == [json |-> tree]
Raw(s) == [raw |-> s]
IsJson(text) == "json" \in DOMAIN text

RECURSIVE JsonTree(_)
JsonTree(v) ==
    IF IsObj(v)
    THEN Obj([k \in {j \in DOMAIN v.obj : v.obj[j] # Undefined} |-> JsonTree(v.obj[k])])
    ELSE IF IsArr(v)
    THEN Arr([i \in DOMAIN v.arr |->
                IF v.arr[i] = Undefined THEN Null ELSE JsonTree(v.arr[i])])
    ELSE IF IsBytes(v)
    THEN Obj([k \in {ToString(i - 1) : i \in DOMAIN v.bytes} |->
                Num(v.bytes[CHOOSE i \in DOMAIN v.bytes : ToString(i - 1) = k])])
    ELSE v

JsonStringify(v) == Json(JsonTree(v))

JsonParse(text) == IF IsJson(text) THEN text.json ELSE Thrown

\* VSBuffer.fromString / VSBuffer.toString
VSBufferFromString(s) == [buffer |-> s]
IsVSBuffer(b) == "buffer" \in DOMAIN b
VSBufferToString(b) == b.buffer

(***************************************************************************)
(* Bounds of the model.                                                    *)
(***************************************************************************)
\* The largest suffix n of Interactive-<n> the model mints.
MaxSuffix == 2
\* The most entries the History Store holds, all documents together.
MaxHist == 2
\* The most cells of a document handed to backup.
MaxDocCells == 2

(***************************************************************************)
(* URIs.  URI.toString() is scheme ":" path for the URIs built here.       *)
(***************************************************************************)
vscodeInteractive == "vscode-interactive"
vscodeInteractiveInput == "vscode-interactive-input"

UriFrom(scheme, path) == [scheme |-> scheme, path |-> path]
UriToString(uri) == uri.scheme \o ":" \o uri.path

NotebookUri(counter) ==
    UriFrom(vscodeInteractive, "Interactive-" \o ToString(counter) \o ".interactive")
InputUri(counter) ==
    UriFrom(vscodeInteractiveInput, "InteractiveInput-" \o ToString(counter))

(***************************************************************************)
(* The notebook content provider (InteractiveDocumentContribution).        *)
(***************************************************************************)
InitialContentOptions ==
    [transientOutputs |-> TRUE,
     transientCellMetadata |-> EmptyObject,
     transientDocumentMetadata |-> EmptyObject]

\* The options the setter may be handed.
NewOptions ==
    {[transientOutputs |-> FALSE,
      transientCellMetadata |-> Obj([custom |-> [bool |-> TRUE]]),
      transientDocumentMetadata |-> EmptyObject],
     [transientOutputs |-> TRUE,
      transientCellMetadata |-> EmptyObject,
      transientDocumentMetadata |-> EmptyObject]}

\* set options(newOptions): copies the three fields.
SetOptionsOf(options, newOptions) ==
    [options EXCEPT !.transientCellMetadata = newOptions.transientCellMetadata,
                    !.transientDocumentMetadata = newOptions.transientDocumentMetadata,
                    !.transientOutputs = newOptions.transientOutputs]

\* cell.getValue() of a live cell.
CellGetValue(cell) == Get(cell, "source")

\* The document open returns when there is no usable backup.
EmptyDocument(options) ==
    [data |-> [metadata |-> EmptyObject, cells |-> EmptyArray],
     transientOptions |-> options]

OpenOutputItem(ot) ==
    LET mime == Get(ot, "mime")
        data == Uint8ArrayFrom(Get(ot, "data"))
    IN  IF mime = Thrown \/ data = Thrown THEN Thrown
        ELSE Obj([mime |-> mime, data |-> data])

OpenOutput(output) ==
    LET outputId == Get(output, "outputId")
        given == Get(output, "outputs")
        outputs == ArrayMap(given, [i \in DOMAIN Elements(given) |->
                                       OpenOutputItem(Elements(given)[i])])
    IN  IF outputId = Thrown \/ outputs = Thrown THEN Thrown
        ELSE Obj([outputId |-> outputId, outputs |-> outputs])

OpenCell(cell) ==
    LET given == Get(cell, "outputs")
        outputs == IF given = Thrown THEN Thrown
                   ELSE IF Truthy(given)
                   THEN ArrayMap(given, [i \in DOMAIN Elements(given) |->
                                            OpenOutput(Elements(given)[i])])
                   ELSE EmptyArray
    IN  IF outputs = Thrown THEN Thrown
        ELSE Obj([source |-> Get(cell, "content"),
                  language |-> Get(cell, "language"),
                  cellKind |-> Get(cell, "kind"),
                  mime |-> Get(cell, "mime"),
                  outputs |-> outputs,
                  metadata |-> Get(cell, "metadata")])

\* The body of the try block of open: Thrown when any step of it throws.
OpenBackup(backup, options) ==
    LET document == JsonParse(backup)
        given == Get(document, "cells")
        cells == ArrayMap(given, [i \in DOMAIN Elements(given) |->
                                     OpenCell(Elements(given)[i])])
    IN  IF cells = Thrown THEN Thrown
        ELSE [data |-> [metadata |-> EmptyObject, cells |-> cells],
              transientOptions |-> options]

\* The same, with the catch clause missing: the exception leaves open.
controllerOpenNoCatch(backupId, options) ==
    IF IsVSBuffer(backupId)
    THEN OpenBackup(VSBufferToString(backupId), options)
    ELSE EmptyDocument(options)

\* controller.open(_uri, _backupId, ...)
controllerOpen(backupId, options) ==
    IF IsVSBuffer(backupId) /\ OpenBackup(VSBufferToString(backupId), options) # Thrown
    THEN OpenBackup(VSBufferToString(backupId), options)
    ELSE EmptyDocument(options)

BackupOutputItem(ot) ==
    Obj([mime |-> Get(ot, "mime"), data |-> ArrayFrom(Get(ot, "data"))])

BackupOutput(output) ==
    LET outputs == Get(output, "outputs")
    IN  Obj([outputId |-> Get(output, "outputId"),
             outputs |-> ArrayMap(outputs,
                                  [i \in DOMAIN Elements(outputs) |->
                                      BackupOutputItem(Elements(outputs)[i])])])

BackupCell(cell) ==
    LET outputs == Get(cell, "outputs")
    IN  Obj([kind |-> Get(cell, "cellKind"),
             language |-> Get(cell, "language"),
             metadata |-> Get(cell, "metadata"),
             mine |-> Get(cell, "mime"),
             outputs |-> ArrayMap(outputs,
                                  [i \in DOMAIN Elements(outputs) |->
                                      BackupOutput(Elements(outputs)[i])]),
             content |-> CellGetValue(cell)])

\* controller.backup(uri, token); docs are the documents the notebook service
\* lists, by the string of their uri.
controllerBackup(docs, uri) ==
    IF UriToString(uri) \in DOMAIN docs
    THEN LET doc == Arr(docs[UriToString(uri)])
             cells == ArrayMap(doc, [i \in DOMAIN Elements(doc) |->
                                        BackupCell(Elements(doc)[i])])
         IN  VSBufferFromString(JsonStringify(Obj([cells |-> cells])))
    ELSE Str("")

(***************************************************************************)
(* Finite maps keyed by the string of a uri.                               *)
(***************************************************************************)
EmptyMap == [k \in {} |-> Undefined]
Put(m, k, v) == [x \in DOMAIN m \cup {k} |-> IF x = k THEN v ELSE m[x]]
Remove(m, k) == [x \in DOMAIN m \ {k} |-> m[x]]

(***************************************************************************)
(* The History Store (IInteractiveHistoryService): per document a log of   *)
(* texts and a cursor, 0 at the bottom boundary and i at log entry i.      *)
(***************************************************************************)
EmptyHistory == [log |-> <<>>, cursor |-> 0]

HistoryOf(h, uri) ==
    IF UriToString(uri) \in DOMAIN h THEN h[UriToString(uri)] ELSE EmptyHistory

addToHistory(h, uri, value) ==
    Put(h, UriToString(uri),
        [log |-> Append(HistoryOf(h, uri).log, value), cursor |-> 0])

\* The value returned (Undefined for no entry) and the store afterwards.
getPreviousValue(h, uri) ==
    LET e == HistoryOf(h, uri)
        at(i) == [value |-> Str(e.log[i]),
                  store |-> Put(h, UriToString(uri), [e EXCEPT !.cursor = i])]
    IN  IF Len(e.log) = 0 THEN [value |-> Undefined, store |-> h]
        ELSE IF e.cursor = 0 THEN at(Len(e.log))
        ELSE IF e.cursor > 1 THEN at(e.cursor - 1)
        ELSE [value |-> Undefined, store |-> h]

getNextValue(h, uri) ==
    LET e == HistoryOf(h, uri)
    IN  IF e.cursor = 0 THEN [value |-> Undefined, store |-> h]
        ELSE IF e.cursor < Len(e.log)
        THEN [value |-> Str(e.log[e.cursor + 1]),
              store |-> Put(h, UriToString(uri), [e EXCEPT !.cursor = e.cursor + 1])]
        ELSE [value |-> Undefined,
              store |-> Put(h, UriToString(uri), [e EXCEPT !.cursor = 0])]

clearHistory(h, uri) == Remove(h, UriToString(uri))

(***************************************************************************)
(* State.                                                                  *)
(***************************************************************************)
VARIABLES
    contentOptions, \* the content provider's transient options
    cells,          \* the notebook service's documents: uri string -> cells
    backedUp,       \* the last backup call: its uri and what it returned
    opened,         \* the last open call: its backupId and what it returned
    editors,        \* the editor service's open editors
    active,         \* the editor of the active editor pane, or Undefined
    text,           \* the input panes' text models: uri string -> text
    history,        \* the History Store
    calls,          \* the execute commands suspended at an await, in
                    \* dispatch order
    revealed,       \* the cell range last revealed in a notebook editor
    result,         \* what the last interactive.open returned
    minted          \* observer of SpecMint: the counter minted last, and
                    \* whether an editor was closed since

vars == <<contentOptions, cells, backedUp, opened, editors, active, text,
          history, calls, revealed, result, minted>>

codecVars == <<contentOptions, cells, backedUp, opened>>

\* The editor groups of the workbench.
Groups == {"group1", "group2"}
\* The texts an input pane holds.
Values == {"", "a"}
\* The texts of SpecHistory.
Texts == {"", "a", "b"}
\* The active kernel of a notebook editor: none, or one with its languages.
Kernels ==
    {Undefined,
     Obj([supportedLanguages |-> EmptyArray]),
     Obj([supportedLanguages |-> Arr(<<Str("python")>>)])}

CellKindMarkup == 1
CellKindCode == 2

\* The number of entries of the History Store.
RECURSIVE TotalEntries(_)
TotalEntries(h) ==
    IF DOMAIN h = {} THEN 0
    ELSE LET k == CHOOSE x \in DOMAIN h : TRUE
         IN  Len(h[k].log) + TotalEntries(Remove(h, k))

(***************************************************************************)
(* interactive.open                                                        *)
(***************************************************************************)
\* The resource argument of the command.
Resources ==
    {Undefined}
        \cup {NotebookUri(k) : k \in 1..MaxSuffix}
        \cup {UriFrom("file", NotebookUri(1).path)}

\* editorService.findEditors(resourceUri), filtered to the interactive
\* editor inputs with that resource.
FindInteractiveEditors(eds, resourceUri) ==
    {e \in eds : /\ e.interactive
                 /\ e.resource # Undefined
                 /\ UriToString(e.resource) = UriToString(resourceUri)}

\* Only the interactive editors are looked at.
ExistingInteractiveOnly(eds) ==
    {UriToString(e.resource) : e \in {x \in eds : x.interactive}}

\* The strings of the resources of the open editors.
ExistingNotebookDocument(eds) ==
    {UriToString(e.resource) : e \in {x \in eds : x.resource # Undefined}}

\* The do-while loop, from counter: the counter of the uris it leaves with.
RECURSIVE MintCounter(_, _)
MintCounter(existing, counter) ==
    IF UriToString(NotebookUri(counter)) \in existing
    THEN MintCounter(existing, counter + 1)
    ELSE counter

\* The loop leaving after its first round whatever is open.
FirstCounterNoLoop(eds) == 1

\* The counter minted with the editors eds open.
FirstCounter(eds) == MintCounter(ExistingNotebookDocument(eds), 1)

\* The history is left as it was.
MintHistoryKept(h, notebookUri) == h

\* The History Store after the command minted notebookUri.
MintHistory(h, notebookUri) == clearHistory(h, notebookUri)

\* No editor is ever found.
LocateEditorsNone(eds, resource) == {}

\* The editors the command reopens instead of minting.
LocateEditors(eds, resource) ==
    IF resource # Undefined /\ resource.scheme = vscodeInteractive
    THEN FindInteractiveEditors(eds, resource)
    ELSE {}

\* The group the located editor is reopened in: the column's group.
LocatedGroupOfColumn(e, group) == group

\* The group the located editor is reopened in.
LocatedGroup(e, group) == e.group

InteractiveEditorInput(notebookUri, inputUri, group) ==
    [resource |-> notebookUri, inputResource |-> inputUri,
     interactive |-> TRUE, group |-> group]

\* editorService.openEditor(editorInput, undefined, group): the editor is
\* opened in group (moved there when it is open elsewhere) and activated.
OpenEditorIn(eds, editorInput, group) ==
    (eds \ {editorInput}) \cup {[editorInput EXCEPT !.group = group]}

OpenLocated(group, resource) ==
    /\ LocateEditors(editors, resource) # {}
    /\ \E e \in LocateEditors(editors, resource) :
          /\ editors' = OpenEditorIn(editors, e, LocatedGroup(e, group))
          /\ active' = [e EXCEPT !.group = LocatedGroup(e, group)]
          /\ result' = [notebookUri |-> e.resource, inputUri |-> e.inputResource]
    /\ UNCHANGED <<text, history, calls, revealed, codecVars>>

OpenMinted(group, resource) ==
    /\ LocateEditors(editors, resource) = {}
    /\ FirstCounter(editors) <= MaxSuffix
    /\ LET counter == FirstCounter(editors)
           notebookUri == NotebookUri(counter)
           inputUri == InputUri(counter)
           editorInput == InteractiveEditorInput(notebookUri, inputUri, group)
       IN  /\ history' = MintHistory(history, notebookUri)
           /\ editors' = OpenEditorIn(editors, editorInput, group)
           /\ active' = editorInput
           /\ cells' = Put(cells, UriToString(notebookUri),
                           controllerOpen(Undefined, contentOptions).data.cells.arr)
           /\ text' = Put(text, UriToString(notebookUri), "")
           /\ result' = [notebookUri |-> notebookUri, inputUri |-> inputUri]
    /\ UNCHANGED <<calls, revealed, contentOptions, backedUp, opened>>

InteractiveOpen(group, resource) ==
    \/ OpenLocated(group, resource)
    \/ OpenMinted(group, resource)

(***************************************************************************)
(* interactive.execute.  InteractiveExecute is the command run with no     *)
(* other command dispatched while it is suspended.  The other four actions *)
(* are the same command step by step: it runs to its first await           *)
(* (ExecuteStart); the bulk edit it awaits is applied by the host          *)
(* (ApplyCellEdit), edits in the order they were submitted; the command    *)
(* resumes and submits the cells of its index range for execution          *)
(* (ExecuteResume); when the execution it awaits ends it reveals the range *)
(* and returns (ExecuteReveal).                                            *)
(***************************************************************************)
\* editorControl && editorControl.notebookEditor && editorControl.codeEditor
ActiveControl == active # Undefined /\ active.interactive

ActiveDocument == UriToString(active.resource)

\* activeKernel?.supportedLanguages[0] ?? 'plaintext'
ExecuteLanguage(activeKernel) ==
    LET languages == IF IsNullish(activeKernel) THEN Undefined
                     ELSE Get(activeKernel, "supportedLanguages")
        first == IF IsArr(languages) /\ Len(languages.arr) > 0
                 THEN languages.arr[1] ELSE Undefined
    IN  IF IsNullish(first) THEN Str("plaintext") ELSE first

\* The cell written as a markup cell.
ExecuteCellMarkup(language, value) ==
    Obj([cellKind |-> Num(CellKindMarkup),
         mime |-> Undefined,
         language |-> language,
         source |-> Str(value),
         outputs |-> EmptyArray,
         metadata |-> EmptyObject])

\* The cell of the edit.
ExecuteCell(language, value) ==
    Obj([cellKind |-> Num(CellKindCode),
         mime |-> Undefined,
         language |-> language,
         source |-> Str(value),
         outputs |-> EmptyArray,
         metadata |-> EmptyObject])

\* The text the command hands to addToHistory.
ExecuteHistoryValue(value) == ""

Min(a, b) == IF a < b THEN a ELSE b

\* CellEditType.Replace: count cells from index on give way to newCells.
ReplaceCells(doc, index, count, newCells) ==
    SubSeq(doc, 1, Min(index, Len(doc)))
        \o newCells
        \o SubSeq(doc, Min(index + count, Len(doc)) + 1, Len(doc))

\* viewModel.getCells({start, end}): the cells at start .. end - 1.
GetCells(doc, start, end) == SubSeq(doc, start + 1, Min(end, Len(doc)))

\* The range the command reveals.
RevealRange(doc, index) == [doc |-> doc, start |-> index, end |-> index + 1]

InteractiveExecute(activeKernel) ==
    /\ ActiveControl
    /\ calls = <<>>
    /\ TotalEntries(history) < MaxHist
    /\ LET index == Len(cells[ActiveDocument])
           value == text[ActiveDocument]
           language == ExecuteLanguage(activeKernel)
       IN  /\ history' = addToHistory(history, active.resource,
                                      ExecuteHistoryValue(value))
           /\ text' = [text EXCEPT ![ActiveDocument] = ""]
           /\ cells' = [cells EXCEPT ![ActiveDocument] =
                           ReplaceCells(@, index, 0, <<ExecuteCell(language, value)>>)]
           /\ revealed' = RevealRange(ActiveDocument, index)
    /\ UNCHANGED <<editors, active, calls, result, contentOptions, backedUp, opened>>

ExecuteStart(activeKernel) ==
    /\ ActiveControl
    /\ TotalEntries(history) < MaxHist
    /\ LET index == Len(cells[ActiveDocument])
           value == text[ActiveDocument]
       IN  /\ history' = addToHistory(history, active.resource,
                                      ExecuteHistoryValue(value))
           /\ text' = [text EXCEPT ![ActiveDocument] = ""]
           /\ calls' = Append(calls,
                  [doc |-> ActiveDocument,
                   index |-> index,
                   value |-> value,
                   language |-> ExecuteLanguage(activeKernel),
                   pc |-> "edit",
                   submitted |-> <<>>])
    /\ UNCHANGED <<editors, active, revealed, result, codecVars>>

\* The first edit submitted and not yet applied.
IsNextEdit(i) ==
    /\ calls[i].pc = "edit"
    /\ \A j \in 1..(i - 1) : calls[j].pc # "edit"

ApplyCellEdit(i) ==
    /\ IsNextEdit(i)
    /\ cells' = [cells EXCEPT ![calls[i].doc] =
                    ReplaceCells(@, calls[i].index, 0,
                                 <<ExecuteCell(calls[i].language, calls[i].value)>>)]
    /\ calls' = [calls EXCEPT ![i].pc = "resume"]
    /\ UNCHANGED <<editors, active, text, history, revealed, result,
                   contentOptions, backedUp, opened>>

ExecuteResume(i) ==
    /\ calls[i].pc = "resume"
    /\ calls' = [calls EXCEPT
                    ![i].pc = "execute",
                    ![i].submitted = GetCells(cells[calls[i].doc],
                                              calls[i].index, calls[i].index + 1)]
    /\ UNCHANGED <<editors, active, text, history, revealed, result, codecVars>>

ExecuteReveal(i) ==
    /\ calls[i].pc = "execute"
    /\ revealed' = RevealRange(calls[i].doc, calls[i].index)
    /\ calls' = SubSeq(calls, 1, i - 1) \o SubSeq(calls, i + 1, Len(calls))
    /\ UNCHANGED <<editors, active, text, history, result, codecVars>>

(***************************************************************************)
(* interactive.history.previous and interactive.history.next               *)
(***************************************************************************)
\* The input pane is set whatever the store returned.
HistoryTextAlways(current, value) == IF IsStr(value) THEN value.str ELSE ""

\* if (previousValue) { textModel.setValue(previousValue); }
HistoryText(current, value) == IF Truthy(value) THEN value.str ELSE current

HistoryPrevious ==
    /\ ActiveControl
    /\ LET previousValue == getPreviousValue(history, active.resource)
       IN  /\ history' = previousValue.store
           /\ text' = [text EXCEPT ![ActiveDocument] =
                          HistoryText(@, previousValue.value)]
    /\ UNCHANGED <<editors, active, calls, revealed, result, codecVars>>

HistoryNext ==
    /\ ActiveControl
    /\ LET previousValue == getNextValue(history, active.resource)
       IN  /\ history' = previousValue.store
           /\ text' = [text EXCEPT ![ActiveDocument] =
                          HistoryText(@, previousValue.value)]
    /\ UNCHANGED <<editors, active, calls, revealed, result, codecVars>>

(***************************************************************************)
(* The host: the user types in the input pane of the active editor, closes *)
(* an editor, opens an editor of another kind on a resource; another       *)
(* client of the History Store records a text.                             *)
(***************************************************************************)
TypeInput(value) ==
    /\ ActiveControl
    /\ text[ActiveDocument] # value
    /\ text' = [text EXCEPT ![ActiveDocument] = value]
    /\ UNCHANGED <<editors, active, history, calls, revealed, result, codecVars>>

\* The string of the resource of editor e ("" when it has none).
EditorDocument(e) ==
    IF e.resource = Undefined THEN "" ELSE UriToString(e.resource)

CloseEditor(e) ==
    /\ e \in editors
    /\ \A i \in DOMAIN calls : calls[i].doc # EditorDocument(e)
    /\ editors' = editors \ {e}
    /\ active' = IF active = e THEN Undefined ELSE active
    /\ IF e.interactive
       THEN /\ cells' = Remove(cells, EditorDocument(e))
            /\ text' = Remove(text, EditorDocument(e))
            /\ revealed' = IF revealed # Undefined
                              /\ revealed.doc = EditorDocument(e)
                           THEN Undefined ELSE revealed
       ELSE UNCHANGED <<cells, text, revealed>>
    /\ UNCHANGED <<history, calls, result, contentOptions, backedUp, opened>>

\* The resources of the editors of another kind.
OtherResources == {Undefined} \cup {NotebookUri(k) : k \in 1..MaxSuffix}

OpenOtherEditor(group, resource) ==
    /\ \A e \in editors : e.resource # resource
    /\ LET editorInput == [resource |-> resource, inputResource |-> Undefined,
                           interactive |-> FALSE, group |-> group]
       IN  /\ editors' = editors \cup {editorInput}
           /\ active' = editorInput
    /\ UNCHANGED <<text, history, calls, revealed, result, codecVars>>

RecordHistory(value) ==
    /\ ActiveControl
    /\ TotalEntries(history) < MaxHist
    /\ history' = addToHistory(history, active.resource, value)
    /\ UNCHANGED <<editors, active, text, calls, revealed, result, codecVars>>

(***************************************************************************)
(* Spec: the commands and the host, each command run to its end.           *)
(***************************************************************************)
Init ==
    /\ contentOptions = InitialContentOptions
    /\ cells = EmptyMap
    /\ backedUp = Undefined
    /\ opened = Undefined
    /\ editors = {}
    /\ active = Undefined
    /\ text = EmptyMap
    /\ history = EmptyMap
    /\ calls = <<>>
    /\ revealed = Undefined
    /\ result = Undefined
    /\ minted = [last |-> 0, closedSince |-> FALSE]

\* The state after a first interactive.open has minted Interactive-1.
FirstEditor ==
    InteractiveEditorInput(NotebookUri(1), InputUri(1), "group1")

InitEditor ==
    /\ contentOptions = InitialContentOptions
    /\ cells = Put(EmptyMap, UriToString(NotebookUri(1)), <<>>)
    /\ backedUp = Undefined
    /\ opened = Undefined
    /\ editors = {FirstEditor}
    /\ active = FirstEditor
    /\ text = Put(EmptyMap, UriToString(NotebookUri(1)), "")
    /\ history = EmptyMap
    /\ calls = <<>>
    /\ revealed = Undefined
    /\ result = [notebookUri |-> NotebookUri(1), inputUri |-> InputUri(1)]
    /\ minted = [last |-> 0, closedSince |-> FALSE]

\* Spec: the windows and their histories.  Interactive windows are opened,
\* executed in and closed, each command run to its end; the navigation of
\* a history is the matter of SpecHistory.
Next ==
    \/ \E group \in Groups, resource \in Resources :
          InteractiveOpen(group, resource) /\ UNCHANGED minted
    \/ \E activeKernel \in {Undefined} :
          InteractiveExecute(activeKernel) /\ UNCHANGED minted
    \/ \E e \in editors : CloseEditor(e) /\ UNCHANGED minted
    \/ \E value \in Values \ {""} : RecordHistory(value) /\ UNCHANGED minted

Spec == Init /\ [][Next]_vars

\* SpecHistory: one interactive window, its input pane and its history.
NextHistory ==
    \/ \E activeKernel \in {Undefined} :
          InteractiveExecute(activeKernel) /\ UNCHANGED minted
    \/ HistoryPrevious /\ UNCHANGED minted
    \/ HistoryNext /\ UNCHANGED minted
    \/ \E value \in Texts : TypeInput(value) /\ UNCHANGED minted
    \/ \E value \in Texts \ {""} : RecordHistory(value) /\ UNCHANGED minted

SpecHistory == InitEditor /\ [][NextHistory]_vars

\* SpecExecute: one interactive window, execute commands step by step, so
\* that a command may be dispatched while another is suspended.
NextExecute ==
    \/ \E activeKernel \in Kernels : ExecuteStart(activeKernel) /\ UNCHANGED minted
    \/ \E i \in DOMAIN calls : ApplyCellEdit(i) /\ UNCHANGED minted
    \/ \E i \in DOMAIN calls : ExecuteResume(i) /\ UNCHANGED minted
    \/ \E i \in DOMAIN calls : ExecuteReveal(i) /\ UNCHANGED minted
    \/ \E value \in Values : TypeInput(value) /\ UNCHANGED minted

SpecExecute == InitEditor /\ [][NextExecute]_vars

\* SpecMint: the editors that are open and the identifiers minted, with
\* the observer minted.
NextMint ==
    \/ \E group \in Groups, resource \in Resources :
          /\ OpenLocated(group, resource)
          /\ UNCHANGED minted
    \/ \E group \in Groups, resource \in Resources :
          /\ OpenMinted(group, resource)
          /\ minted' = [last |-> FirstCounter(editors), closedSince |-> FALSE]
    \/ \E e \in editors :
          /\ CloseEditor(e)
          /\ minted' = [minted EXCEPT !.closedSince = TRUE]
    \/ \E group \in Groups, resource \in OtherResources :
          OpenOtherEditor(group, resource) /\ UNCHANGED minted

SpecMint == Init /\ [][NextMint]_vars

(***************************************************************************)
(* SpecCodec: backup and open of the content provider, applied to the      *)
(* documents of the notebook service and to the buffers the host hands in. *)
(***************************************************************************)
SampleOutput ==
    Obj([outputId |-> Str("o1"),
         outputs |-> Arr(<<Obj([mime |-> Str("text/plain"),
                                data |-> Bytes(<<0, 255>>)])>>)])

\* A live cell of a notebook document.
LiveCell(cellKind, language, mime, source, outputs, metadata) ==
    Obj([cellKind |-> Num(cellKind),
         language |-> Str(language),
         mime |-> mime,
         source |-> Str(source),
         outputs |-> Arr(outputs),
         metadata |-> metadata])

CellSamples ==
    {LiveCell(k[1], k[2], mime, k[3], outputs, k[4]) :
        k \in {<<CellKindCode, "python", "print(1)", EmptyObject>>,
               <<CellKindMarkup, "markdown", "", Obj([custom |-> Str("x")])>>},
        mime \in {Undefined, Str("text/x-python")},
        outputs \in {<<>>, <<SampleOutput>>}}

\* The cell lists of the documents handed to backup.
Docs == UNION {[1..n -> CellSamples] : n \in 0..MaxDocCells}

\* A cell of a backup, as JSON.
JsonCell(outputs) ==
    Obj([kind |-> Num(CellKindCode), language |-> Str("python"),
         content |-> Str("1"), outputs |-> outputs])

\* The backupId arguments of open besides the buffer backup returned.
BackupIds ==
    {Undefined,
     Str(""),
     VSBufferFromString(Raw("")),
     VSBufferFromString(Raw("{cells:")),
     VSBufferFromString(Json(Null)),
     VSBufferFromString(Json(Num(1))),
     VSBufferFromString(Json(Str("cells"))),
     VSBufferFromString(Json(EmptyArray)),
     VSBufferFromString(Json(EmptyObject)),
     VSBufferFromString(Json(Obj([cells |-> Null]))),
     VSBufferFromString(Json(Obj([cells |-> Str("x")]))),
     VSBufferFromString(Json(Obj([cells |-> EmptyObject]))),
     VSBufferFromString(Json(Obj([cells |-> Arr(<<Null>>)]))),
     VSBufferFromString(Json(Obj([cells |-> Arr(<<JsonCell(Num(1))>>)]))),
     VSBufferFromString(Json(Obj([cells |-> Arr(<<JsonCell(Null)>>)]))),
     VSBufferFromString(Json(Obj([cells |->
         Arr(<<JsonCell(Arr(<<Obj([outputId |-> Str("o")])>>))>>)]))),
     VSBufferFromString(Json(Obj([cells |->
         Arr(<<JsonCell(Arr(<<Obj([outputId |-> Str("o"),
                 outputs |-> Arr(<<Obj([mime |-> Str("m")])>>)])>>))>>)]))),
     VSBufferFromString(Json(Obj([cells |->
         Arr(<<JsonCell(Arr(<<Obj([outputId |-> Str("o"),
                 outputs |-> Arr(<<Obj([mime |-> Str("m"),
                     data |-> Arr(<<Num(300), Num(-1)>>)])>>)])>>))>>)])))}

InitCodec ==
    /\ contentOptions = InitialContentOptions
    /\ cells \in {Put(EmptyMap, UriToString(NotebookUri(1)), d) : d \in Docs}
    /\ backedUp = Undefined
    /\ opened = Undefined
    /\ editors = {}
    /\ active = Undefined
    /\ text = EmptyMap
    /\ history = EmptyMap
    /\ calls = <<>>
    /\ revealed = Undefined
    /\ result = Undefined
    /\ minted = [last |-> 0, closedSince |-> FALSE]

Backup(uri) ==
    /\ backedUp' = [uri |-> uri, result |-> controllerBackup(cells, uri)]
    /\ UNCHANGED <<contentOptions, cells, opened>>

Open(backupId) ==
    /\ opened' = [backupId |-> backupId,
                  result |-> controllerOpen(backupId, contentOptions)]
    /\ UNCHANGED <<contentOptions, cells, backedUp>>

\* The setter of options.  What open returned holds the options object
\* itself, so it shows the new fields too.
SetOptions(newOptions) ==
    /\ contentOptions' = SetOptionsOf(contentOptions, newOptions)
    /\ opened' = IF opened = Undefined THEN opened
                 ELSE [opened EXCEPT !.result.transientOptions =
                          SetOptionsOf(contentOptions, newOptions)]
    /\ UNCHANGED <<cells, backedUp>>

NextCodec ==
    \/ \E uri \in {NotebookUri(1), NotebookUri(2)} :
          Backup(uri)
            /\ UNCHANGED <<editors, active, text, history, calls, revealed,
                           result, minted>>
    \/ \E backupId \in BackupIds \cup
                        (IF backedUp = Undefined THEN {} ELSE {backedUp.result}) :
          Open(backupId)
            /\ UNCHANGED <<editors, active, text, history, calls, revealed,
                           result, minted>>
    \/ \E newOptions \in NewOptions :
          SetOptions(newOptions)
            /\ UNCHANGED <<editors, active, text, history, calls, revealed,
                           result, minted>>

SpecCodec == InitCodec /\ [][NextCodec]_vars

(***************************************************************************)
(* The claims.                                                             *)
(***************************************************************************)
Last(s) == s[Len(s)]

\* The pair of identifiers interactive.open returns for counter n.
Identifiers(n) == [notebookUri |-> NotebookUri(n), inputUri |-> InputUri(n)]

\* C1 (SpecHistory): when execute-code runs with a non-empty text v in the
\* input pane of the active editor, the entry it appends to the history log
\* of the document is v, and the first history-previous afterwards would
\* rewrite the input pane to v.
C1_ExecuteRecordsInput ==
    [][(/\ ActiveControl
        /\ \E activeKernel \in Kernels : InteractiveExecute(activeKernel)
        /\ text[ActiveDocument] # "")
       => /\ Last(HistoryOf(history', active.resource).log) = text[ActiveDocument]
          /\ HistoryText(text'[ActiveDocument],
                         getPreviousValue(history', active.resource).value)
                = text[ActiveDocument]]_vars

\* The History Store returns no entry: an absent or empty result.
NoEntry(value) == value = Undefined \/ value = Str("")

\* The input pane after a navigation command to which the store returned
\* value: unchanged for no entry, else exactly that entry.
Navigated(value) ==
    IF NoEntry(value) THEN text' = text
    ELSE text' = [text EXCEPT ![ActiveDocument] = value.str]

\* C7 (SpecHistory): history-previous and history-next leave the text of the
\* input pane unchanged when the History Store returns no entry, and
\* otherwise rewrite it to exactly the entry returned; no other input pane
\* changes.
C7_ExhaustedHistoryKeepsText ==
    [][/\ HistoryPrevious
            => Navigated(getPreviousValue(history, active.resource).value)
       /\ HistoryNext
            => Navigated(getNextValue(history, active.resource).value)]_vars

\* history-previous is exhausted at the first entry "b" of the log while the
\* input pane holds the text "a" typed since: the pane keeps "a".
C7_Witness ==
    /\ ActiveControl
    /\ HistoryOf(history, active.resource).cursor = 1
    /\ HistoryOf(history, active.resource).log[1] = "b"
    /\ text[ActiveDocument] = "a"

\* An interactive editor for Interactive-<k> is opened in this step.
MintedIn(k) ==
    /\ \A e \in editors : ~(e.interactive /\ e.resource = NotebookUri(k))
    /\ \E e \in editors' : e.interactive /\ e.resource = NotebookUri(k)

\* C6 (Spec): whenever interactive.open mints a session for Interactive-<k>,
\* the history of that identifier is empty afterwards, so that
\* history-previous finds no entry, whatever earlier sessions recorded.
C6_MintClearsHistory ==
    [][\A k \in 1..MaxSuffix :
          MintedIn(k)
             => /\ HistoryOf(history', NotebookUri(k)) = EmptyHistory
                /\ getPreviousValue(history', NotebookUri(k)).value = Undefined]_vars

\* An earlier session of Interactive-<k> has recorded entries and is closed,
\* and k is the counter the next interactive.open mints.
C6_Witness ==
    \E k \in 1..MaxSuffix :
        /\ Len(HistoryOf(history, NotebookUri(k)).log) > 0
        /\ \A e \in editors : e.resource # NotebookUri(k)
        /\ FirstCounter(editors) = k

\* The open interactive editors a resource of the interactive scheme names.
Matching(resource) ==
    IF resource = Undefined THEN {}
    ELSE {e \in editors : /\ e.interactive
                          /\ resource.scheme = vscodeInteractive
                          /\ e.resource = resource}

\* C8 (Spec): interactive.open called with a resource of the interactive
\* scheme that matches an open interactive editor returns that editor's
\* identifiers, opens no editor and moves none (the editor stays in its
\* group and becomes active), and leaves the History Store unchanged.
C8_LocatedOpenReturnsExisting ==
    [][\A group \in Groups, resource \in Resources :
          (InteractiveOpen(group, resource) /\ Matching(resource) # {})
             => \E e \in Matching(resource) :
                   /\ result' = [notebookUri |-> e.resource,
                                 inputUri |-> e.inputResource]
                   /\ editors' = editors
                   /\ active' = e
                   /\ history' = history]_vars

\* Interactive-1 was reopened by its resource: it is active and returned,
\* it still holds the cell executed in it and its history, while the last
\* execution took place in Interactive-2, opened after it.
C8_Witness ==
    /\ active # Undefined
    /\ active.resource = NotebookUri(1)
    /\ active.interactive
    /\ result = Identifiers(1)
    /\ \E e \in editors : e.interactive /\ e.resource = NotebookUri(2)
    /\ Len(cells[UriToString(NotebookUri(1))]) > 0
    /\ Len(HistoryOf(history, NotebookUri(1)).log) > 0
    /\ revealed # Undefined
    /\ revealed.doc = UriToString(NotebookUri(2))

\* interactive.open mints identifiers in this step.
MintStep == \E group \in Groups, resource \in Resources : OpenMinted(group, resource)

\* C3 (SpecMint): the suffix n of the identifiers interactive.open mints is
\* the smallest positive integer not in use: no open editor has the
\* resource Interactive-<n>.interactive, and every k < n is the suffix of
\* the resource of an open editor.
C3_MintsSmallestFree ==
    [][MintStep
          => \E n \in 1..MaxSuffix :
                /\ result' = Identifiers(n)
                /\ \A e \in editors : e.resource # NotebookUri(n)
                /\ \A k \in 1..(n - 1) :
                      \E e \in editors : e.resource = NotebookUri(k)]_vars

\* Interactive-2 was minted because an editor of another kind holds
\* Interactive-1.interactive.
C3_Witness ==
    /\ minted.last = 2
    /\ ~minted.closedSince
    /\ result = Identifiers(2)
    /\ \E e \in editors : e.interactive /\ e.resource = NotebookUri(2)
    /\ \E e \in editors : ~e.interactive /\ e.resource = NotebookUri(1)

\* C4 as stated (SpecMint): the suffixes of successively minted identifiers
\* are strictly increasing, and each minted suffix is that of no open
\* editor.
C4_MintedSuffixesIncrease ==
    [][MintStep
          => /\ minted.last # 0 => minted'.last > minted.last
             /\ \A e \in editors : e.resource # NotebookUri(minted'.last)]_vars

\* C4 as amended (SpecMint): each minted suffix is that of no open editor,
\* and it is greater than the suffix minted before it when no editor was
\* closed between the two.
C4_MintedSuffixesIncreaseUntilClose ==
    [][MintStep
          => /\ (minted.last # 0 /\ ~minted.closedSince)
                   => minted'.last > minted.last
             /\ \A e \in editors : e.resource # NotebookUri(minted'.last)]_vars

\* Interactive-1 and Interactive-2 were minted one after the other, no
\* editor closed since.
C4_Witness ==
    /\ minted.last = 2
    /\ ~minted.closedSince
    /\ \E e \in editors : e.interactive /\ e.resource = NotebookUri(1)
    /\ \E e \in editors : e.interactive /\ e.resource = NotebookUri(2)

\* C9 (SpecExecute): an execute command reads the index n (the length of
\* the document) and the text of the input pane and empties the pane; when
\* its edit is applied to the document of still n cells, the document gains
\* exactly one cell, at index n, a code cell with that text as source,
\* no outputs and empty metadata, the cells before it unchanged; and when
\* it resumes on the document of n + 1 cells, the cell it submits for
\* execution is the cell at index n.
C9_ExecuteAppendsOneCell ==
    [][/\ \A activeKernel \in Kernels :
             ExecuteStart(activeKernel)
                => /\ Last(calls').index = Len(cells[ActiveDocument])
                   /\ Last(calls').value = text[ActiveDocument]
                   /\ text'[ActiveDocument] = ""
                   /\ cells' = cells
       /\ \A i \in DOMAIN calls :
             (ApplyCellEdit(i) /\ Len(cells[calls[i].doc]) = calls[i].index)
                => LET n == calls[i].index
                       after == cells'[calls[i].doc]
                   IN  /\ Len(after) = n + 1
                       /\ SubSeq(after, 1, n) = cells[calls[i].doc]
                       /\ Get(after[n + 1], "cellKind") = Num(CellKindCode)
                       /\ CellGetValue(after[n + 1]) = Str(calls[i].value)
                       /\ Get(after[n + 1], "outputs") = EmptyArray
                       /\ Get(after[n + 1], "metadata") = EmptyObject
       /\ \A i \in DOMAIN calls :
             (ExecuteResume(i) /\ Len(cells[calls[i].doc]) = calls[i].index + 1)
                => /\ calls'[i].submitted
                         = <<cells[calls[i].doc][calls[i].index + 1]>>
                   /\ CellGetValue(cells[calls[i].doc][calls[i].index + 1])
                         = Str(calls[i].value)]_vars

\* A single command on a document of one cell has appended its cell "a" at
\* index 1, emptied the input pane and submitted that cell for execution.
C9_Witness ==
    /\ Len(calls) = 1
    /\ calls[1].pc = "execute"
    /\ calls[1].index = 1
    /\ calls[1].value = "a"
    /\ Len(cells[calls[1].doc]) = 2
    /\ calls[1].submitted = <<cells[calls[1].doc][2]>>
    /\ text[calls[1].doc] = ""

\* The call has had its edit applied.
Edited(i) == calls[i].pc \in {"resume", "execute"}

\* C10 (SpecExecute): under any interleaving of execute commands on a
\* document, the index a command captured designates its own cell (the cell
\* with the text it read) whenever it is used after the edit, the cell it
\* submits for execution is that cell, and the cells of two commands stand
\* in the document in the order the commands were dispatched.
C10_IndexDesignatesOwnCell ==
    \A i \in DOMAIN calls :
        /\ Edited(i)
              => /\ calls[i].index < Len(cells[calls[i].doc])
                 /\ CellGetValue(cells[calls[i].doc][calls[i].index + 1])
                       = Str(calls[i].value)
        /\ calls[i].pc = "execute"
              => /\ Len(calls[i].submitted) = 1
                 /\ CellGetValue(calls[i].submitted[1]) = Str(calls[i].value)
        /\ \A j \in DOMAIN calls :
              (i < j /\ calls[i].doc = calls[j].doc /\ Edited(i) /\ Edited(j))
                 => \E p, q \in DOMAIN cells[calls[i].doc] :
                       /\ p < q
                       /\ CellGetValue(cells[calls[i].doc][p]) = Str(calls[i].value)
                       /\ CellGetValue(cells[calls[i].doc][q]) = Str(calls[j].value)

\* The restored cell has the fields of the live cell.
SameCell(live, restored) ==
    /\ Get(restored, "cellKind") = Get(live, "cellKind")
    /\ Get(restored, "language") = Get(live, "language")
    /\ Get(restored, "metadata") = Get(live, "metadata")
    /\ Get(restored, "mime") = Get(live, "mime")
    /\ Get(restored, "source") = CellGetValue(live)
    /\ Get(restored, "outputs") = Get(live, "outputs")

\* C2 (SpecCodec): open of the buffer backup returned for a document yields
\* as many cells as the document has, in its order, each with the kind,
\* language, metadata, mime, source and outputs of the live cell.
C2_BackupRestoreLossless ==
    (/\ opened # Undefined
     /\ backedUp # Undefined
     /\ IsVSBuffer(backedUp.result)
     /\ opened.backupId = backedUp.result)
        => LET live == cells[UriToString(backedUp.uri)]
               restored == opened.result.data.cells
           IN  /\ IsArr(restored)
               /\ Len(restored.arr) = Len(live)
               /\ \A i \in DOMAIN live : SameCell(live[i], restored.arr[i])

\* The backupId is no buffer, or not JSON, or JSON without a list of cells.
BadPayload(backupId) ==
    \/ ~IsVSBuffer(backupId)
    \/ ~IsJson(VSBufferToString(backupId))
    \/ ~IsArr(Get(JsonParse(VSBufferToString(backupId)), "cells"))

\* C5 (SpecCodec): open never ends in an exception, and for a backupId that
\* is no buffer, not JSON, or JSON without a list of cells it returns the
\* document of no cells and empty metadata with the transient options.
C5_OpenNeverThrows ==
    opened # Undefined
        => /\ opened.result # Thrown
           /\ BadPayload(opened.backupId)
                 => opened.result = EmptyDocument(contentOptions)

\* open was handed a buffer that is not JSON and returned no cells.
C5_Witness ==
    /\ opened # Undefined
    /\ IsVSBuffer(opened.backupId)
    /\ ~IsJson(VSBufferToString(opened.backupId))
    /\ opened.result.data.cells = EmptyArray
====
